---------------------------- MODULE Spec2Model ----------------------------
(***************************************************************************)
(* Model of api/webhook.py: the Flask endpoints (/, /health,               *)
(* /api/webhook), the lazily initialised service handles and the /start    *)
(* handler that provisions a user document and credits a referrer.         *)
(*                                                                         *)
(* Python strings are sequences of one-character strings, so that          *)
(* str.split, str.startswith and slicing are computed, not assumed.        *)
(* A Firestore document is a function from field names to values (a dict), *)
(* so that a field that was never written is absent from its DOMAIN.       *)
(* The 'users' collection is a function whose DOMAIN is the set of ids      *)
(* that have a document.                                                   *)
(*                                                                         *)
(* Every Firestore call of handle_start is one step; the code between two  *)
(* calls touches only locals (and Telegram / the blob store, which no      *)
(* other step reads), so it is folded into the step of the call it leads   *)
(* to.  Requests of different workers interleave at these steps.           *)
(***************************************************************************)
EXTENDS Integers, Sequences, FiniteSets, TLC

(* ------------------------------ bounds -------------------------------- *)

\* webhook POSTs served in one behaviour
MaxRequests == 2

\* balance of the document that exists before the first request
InitBalance == 200

\* concurrent request workers
Procs == {"w1", "w2"}

(* ------------------------------ strings ------------------------------- *)

\* Python's None; a tuple, so that it compares with strings (tuples of characters)
None == <<"None">>

Digit(d) == CASE d = 0 -> "0" [] d = 1 -> "1" [] d = 2 -> "2" [] d = 3 -> "3"
              [] d = 4 -> "4" [] d = 5 -> "5" [] d = 6 -> "6" [] d = 7 -> "7"
              [] d = 8 -> "8" [] d = 9 -> "9"

\* str(n) for a non-negative integer
RECURSIVE Str(_)
Str(n) == IF n < 10 THEN <<Digit(n)>> ELSE Str(n \div 10) \o <<Digit(n % 10)>>

IsSpace(c) == c \in {" ", "\t", "\n"}

\* the first whitespace-free run of s starting at position i, and where it ends
RECURSIVE WordEnd(_, _)
WordEnd(s, i) == IF i > Len(s) \/ IsSpace(s[i]) THEN i ELSE WordEnd(s, i + 1)

\* s.split(): the maximal whitespace-free runs of s, in order, none empty
RECURSIVE SplitFrom(_, _)
SplitFrom(s, i) ==
    IF i > Len(s) THEN <<>>
    ELSE IF IsSpace(s[i]) THEN SplitFrom(s, i + 1)
    ELSE LET j == WordEnd(s, i) IN <<SubSeq(s, i, j - 1)>> \o SplitFrom(s, j)

Split(s) == SplitFrom(s, 1)

\* s.startswith(prefix)
StartsWith(s, prefix) ==
    /\ Len(s) >= Len(prefix)
    /\ SubSeq(s, 1, Len(prefix)) = prefix

\* s[n:]
SliceFrom(s, n) == SubSeq(s, n + 1, Len(s))

RefPrefix == <<"r", "e", "f", "_">>

StartCmd == <<"/", "s", "t", "a", "r", "t">>

HelpCmd == <<"/", "h", "e", "l", "p">>

\* len(text) > 1 and text[1].startswith('ref_')   (text is the split message)
HasReferralCode(text) == Len(text) > 1 /\ StartsWith(text[2], RefPrefix)

\* text[1][4:]
ReferrerIdOf(text) == SliceFrom(text[2], 4)

\* commands=['start']: the message's first word, without its slash, is 'start'
IsStartCommand(msgText) ==
    LET words == Split(msgText)
    IN  /\ Len(words) > 0
        /\ StartsWith(words[1], <<"/">>)
        /\ SliceFrom(words[1], 1) = SliceFrom(StartCmd, 1)

(* ------------------------------ inputs -------------------------------- *)

\* Telegram ids of the users that send messages
FromIds == {2, 3}

\* ids a referral link may name: a user with a document from the start (1)
\* and a sender (2), who has a document only once provisioned
RefTargets == {1, 2}

Space == <<" ">>

MessageTexts ==
    {StartCmd, HelpCmd, StartCmd \o Space \o Str(1)}
      \cup {StartCmd \o Space \o RefPrefix \o Str(r) : r \in RefTargets}

\* every id that can name a document
DocIds == {Str(n) : n \in FromIds \cup RefTargets}

ContentTypes == {"application/json", "text/plain"}

\* what get_user_profile_photos .. generate_signed_url can do (lines 90-101)
MirrorOutcomes ==
    {"ok", "no_photo", "photos_raise", "get_file_raise", "bad_status",
     "upload_raise", "sign_raise"}

\* the outcomes in which a call of lines 90-101 raises
MirrorRaises(outcome) ==
    outcome \in {"photos_raise", "get_file_raise", "upload_raise", "sign_raise"}

\* what a handler remembers of its mirror attempt
MirrorClass(outcome) ==
    IF outcome = "ok" THEN "ok"
    ELSE IF MirrorRaises(outcome) THEN "raised" ELSE "nothing"

(* ----------------------------- documents ------------------------------ *)

EmptyMap == [x \in {} |-> None]

SignedUrl(user_id) == <<"u", "r", "l", ":">> \o user_id

\* user_data as built at lines 105-122 (the fields no step ever reads back --
\* names, languageCode, isPremium, mineRate, isMining, miningStartedTime,
\* daily, links -- are left out)
InitialUserData(user_image) ==
    [userImage |-> user_image,
     referrals |-> EmptyMap,
     balance   |-> 0]

\* (variant: a None referrer is not stored)
WithReferredByUnlessNone(user_data, v) ==
    IF v = None THEN user_data ELSE ("referredBy" :> v) @@ user_data

\* user_data['referredBy'] = v
WithReferredBy(user_data, v) == ("referredBy" :> v) @@ user_data

\* bonus_amount = 500 if is_premium else 100
bonus_amount(is_premium) == IF is_premium THEN 500 ELSE 100

\* referrals[user_id] = {...}
\* (of the entry, addedValue is kept; the names and userImage are left out)
WithReferral(referrals, user_id, bonus) ==
    [x \in DOMAIN referrals \cup {user_id} |->
        IF x = user_id THEN [addedValue |-> bonus] ELSE referrals[x]]

(* ------------------------------- state -------------------------------- *)

VARIABLES
    env,        \* os.environ: BOT_TOKEN and FIREBASE_SERVICE_ACCOUNT
    bot,        \* global bot    (line 20)
    db,         \* global db     (line 21)
    bucket,     \* global bucket (line 22)
    handlers,   \* commands with a registered message handler
    users,      \* the 'users' collection: document id -> document
    h,          \* per worker: the request it serves and handle_start's locals
    last,       \* the last HTTP answer given, with what the request did
    nreq,       \* webhook POSTs served so far
    setCount,   \* history: successful user_ref.set calls per document id
    overlap     \* history: two handle_start runs for this id were in flight together

vars == <<env, bot, db, bucket, handlers, users, h, last, nreq, setCount, overlap>>

Unset == "None"

\* a worker that serves no request.  pc .. writes are the request in flight
\* (handle_start's locals, and the store writes it has made); resp ..
\* failed_at are the answer it is about to give
IdleWorker ==
    [pc              |-> "idle",
     user_id         |-> <<>>,
     is_premium      |-> FALSE,
     text            |-> <<>>,
     mirror          |-> "none",
     user_image      |-> None,
     user_data       |-> InitialUserData(None),
     referrer_id     |-> <<>>,
     referrer_exists |-> FALSE,
     referrer_data   |-> InitialUserData(None),
     writes          |-> <<>>,
     resp            |-> 0,
     dispatched      |-> FALSE,
     reply           |-> "none",
     failed_at       |-> "none"]

\* the answer of / or /health
StatusAnswer(endpoint, code, text) ==
    [endpoint |-> endpoint, code |-> code, status |-> text,
     dispatched |-> FALSE, reply |-> "none", failed_at |-> "none",
     writes |-> <<>>]

NoAnswer == StatusAnswer("none", 0, "none")

\* the answer of /api/webhook a worker gives when its request ends
Answer(w) ==
    [endpoint |-> "/api/webhook", code |-> w.resp,
     status |-> IF w.resp = 200 THEN "success" ELSE "error",
     dispatched |-> w.dispatched, reply |-> w.reply,
     failed_at |-> w.failed_at, writes |-> w.writes]

Init ==
    /\ env \in [BOT_TOKEN : {"missing", "set"},
                FIREBASE_SERVICE_ACCOUNT : {"missing", "invalid", "set"}]
    /\ bot = Unset
    /\ db = Unset
    /\ bucket = Unset
    /\ handlers = {}
    /\ users = (Str(1) :> [InitialUserData(None) EXCEPT !.balance = InitBalance])
    /\ h = [p \in Procs |-> IdleWorker]
    /\ last = NoAnswer
    /\ nreq = 0
    /\ setCount = [u \in DocIds |-> 0]
    /\ overlap = [u \in DocIds |-> FALSE]

(* ------------------------- initialize_services ------------------------ *)

\* the globals after the call, and whether it raised
initialize_services ==
    IF bot # Unset
    THEN [bot |-> bot, db |-> db, bucket |-> bucket, handlers |-> handlers,
          raised |-> FALSE]
    ELSE IF env.BOT_TOKEN = "missing"
    THEN [bot |-> bot, db |-> db, bucket |-> bucket, handlers |-> handlers,
          raised |-> TRUE]
    ELSE IF env.FIREBASE_SERVICE_ACCOUNT # "set"
    THEN [bot |-> "AsyncTeleBot", db |-> db, bucket |-> bucket,
          handlers |-> handlers, raised |-> TRUE]
    ELSE [bot |-> "AsyncTeleBot", db |-> "firestore", bucket |-> "bucket",
          handlers |-> handlers \cup {"start"}, raised |-> FALSE]

SetServices(r) ==
    /\ bot' = r.bot
    /\ db' = r.db
    /\ bucket' = r.bucket
    /\ handlers' = r.handlers

(* --------------------------- status endpoints ------------------------- *)

home ==
    LET r == initialize_services
    IN  /\ SetServices(r)
        /\ last' = IF r.raised
                   THEN StatusAnswer("/", 500, "error")
                   ELSE StatusAnswer("/", 200, "Bot is running")
        /\ UNCHANGED <<env, users, h, nreq, setCount, overlap>>

health ==
    LET r == initialize_services
    IN  /\ SetServices(r)
        /\ last' = IF r.raised
                   THEN StatusAnswer("/health", 500, "unhealthy")
                   ELSE StatusAnswer("/health", 200, "healthy")
        /\ UNCHANGED <<env, users, h, nreq, setCount, overlap>>

(* ------------------------------ the store ----------------------------- *)

\* (variant: the lookup never finds a document)
DocExistsNever(id) == FALSE

\* db.collection('users').document(id).get().exists
DocExists(id) == id \in DOMAIN users

\* (variant: the existence check is dropped)
NeedsProvisioningAlways(exists) == TRUE

\* if not user_doc.exists:
NeedsProvisioning(exists) == ~exists

\* ref.set(data): the document is replaced whole, or created
StoreSet(id, data) ==
    [x \in DOMAIN users \cup {id} |-> IF x = id THEN data ELSE users[x]]

\* (variant: the entry is added and the bonus is not)
ReferrerFieldsNoBonus(referrer_data, user_id, is_premium) ==
    [balance   |-> referrer_data.balance,
     referrals |-> WithReferral(referrer_data.referrals, user_id,
                                bonus_amount(is_premium))]

\* the fields referrer_ref.update writes (lines 132-148), from the snapshot
\* referrer_doc.to_dict() the handler took
ReferrerFields(referrer_data, user_id, is_premium) ==
    LET bonus == bonus_amount(is_premium)
    IN  [balance   |-> referrer_data.balance + bonus,
         referrals |-> WithReferral(referrer_data.referrals, user_id, bonus)]

\* (variant: the update rewrites the document, keeping only what it knows of)
StoreUpdateReplace(id, fields) ==
    [users EXCEPT ![id] = [userImage |-> @.userImage,
                           balance   |-> fields.balance,
                           referrals |-> fields.referrals]]

\* ref.update(fields): only the named fields of the stored document change
StoreUpdate(id, fields) ==
    [users EXCEPT ![id] = [@ EXCEPT !.balance = fields.balance,
                                    !.referrals = fields.referrals]]

(* ------------------------------ the mirror ---------------------------- *)

\* user_image after lines 88-103
MirrorUserImage(outcome, user_id) ==
    IF outcome = "ok" THEN SignedUrl(user_id) ELSE None

\* (variant: a raising mirror call is not caught)
MirrorPropagatesRaise(outcome) == MirrorRaises(outcome)

\* whether an exception of the mirror leaves the inner try (line 102 catches all)
MirrorPropagates(outcome) == FALSE

(* ------------------------------ handle_start -------------------------- *)

\* (variant: a failed handler is answered with a server error)
AckStatusByOutcome(failed) == IF failed THEN 500 ELSE 200

\* the status webhook() returns once process_new_updates has returned
\* (line 191); handle_start has caught its own exceptions (line 157)
AckStatus(failed) == 200

\* the handler ends: the reply is sent and webhook() is about to answer
\* (bot.reply_to is taken to deliver: a reply that raises is not modelled)
Finish(w, reply, failed_at) ==
    [w EXCEPT !.pc = "idle",
              !.reply = reply,
              !.failed_at = failed_at,
              !.resp = AckStatus(failed_at # "none")]

\* worker p goes on as w, or answers and is free again when w has ended
Proceed(p, w) ==
    IF w.pc = "idle"
    THEN /\ h' = [h EXCEPT ![p] = IdleWorker]
         /\ last' = Answer(w)
    ELSE /\ h' = [h EXCEPT ![p] = w]
         /\ last' = last

\* the except branch of handle_start (lines 157-160), entered from `call`
Fail(w, call) == Finish(w, "error", call)

\* lines 154-155
Welcome(w) == Finish(w, "welcome", "none")

\* a request answered without dispatch
Refuse(code) == [IdleWorker EXCEPT !.resp = code]

\* lines 88-125 for a user without a document
Provision(w, outcome) ==
    IF MirrorRaises(outcome) /\ MirrorPropagates(outcome) THEN Fail(w, "mirror")
    ELSE LET user_image == MirrorUserImage(outcome, w.user_id)
             w2 == [w EXCEPT !.mirror = MirrorClass(outcome),
                             !.user_image = user_image,
                             !.user_data = InitialUserData(user_image)]
         IN  IF HasReferralCode(w.text)
             THEN [w2 EXCEPT !.pc = "get_referrer",
                             !.referrer_id = ReferrerIdOf(w.text)]
             ELSE [w2 EXCEPT !.pc = "set_user"]

\* handle_start from its first line to its first store call and, when the
\* user has no document, on to the point before the next store call: the
\* worker states it can end in
handle_start(msg) ==
    LET user_id == Str(msg.from_id)
        text    == Split(msg.text)
        w0 == [IdleWorker EXCEPT !.dispatched = TRUE,
                                 !.user_id = user_id,
                                 !.is_premium = msg.is_premium,
                                 !.text = text]
    IN  {Fail(w0, "user_ref.get")}
          \cup IF ~NeedsProvisioning(DocExists(user_id))
               THEN {Welcome(w0)}
               ELSE {Provision(w0, outcome) : outcome \in MirrorOutcomes}

Malformed == [kind |-> "malformed"]

Messages ==
    [kind : {"message"}, from_id : FromIds, is_premium : BOOLEAN,
     text : MessageTexts]

InFlight(q) == h[q].pc # "idle"

\* webhook() (lines 182-202) with the services as initialize_services left
\* them (r): the worker states the request can lead to
WebhookResults(r) ==
    IF r.raised THEN {Refuse(500)}
    ELSE {Refuse(400)}                                   \* another content type
           \cup {Refuse(500)}                            \* get_json / de_json raises
           \cup UNION {IF "start" \in r.handlers /\ IsStartCommand(msg.text)
                       THEN handle_start(msg)
                       ELSE {[IdleWorker EXCEPT !.dispatched = TRUE,
                                                !.resp = AckStatus(FALSE)]}
                       : msg \in Messages}

\* POST /api/webhook, up to the handler's first store call
webhook(p) ==
    /\ ~InFlight(p)
    /\ nreq < MaxRequests
    /\ nreq' = nreq + 1
    /\ LET r == initialize_services
       IN  /\ SetServices(r)
           /\ \E w \in WebhookResults(r) :
                /\ Proceed(p, w)
                /\ overlap' =
                     IF w.pc # "idle"
                        /\ \E q \in Procs \ {p} :
                              InFlight(q) /\ h[q].user_id = w.user_id
                     THEN [overlap EXCEPT ![w.user_id] = TRUE]
                     ELSE overlap
    /\ UNCHANGED <<env, users, setCount>>

\* referrer_ref.get() and lines 129-131, 149-150
referrer_ref_get(p) ==
    /\ h[p].pc = "get_referrer"
    /\ \E ok \in BOOLEAN :
         LET w == h[p]
         IN  Proceed(p,
                IF ~ok THEN Fail(w, "referrer_ref.get")
                ELSE IF DocExists(w.referrer_id)
                THEN [w EXCEPT !.pc = "update_referrer",
                               !.referrer_exists = TRUE,
                               !.referrer_data = users[w.referrer_id],
                               !.user_data = WithReferredBy(w.user_data,
                                                            w.referrer_id)]
                ELSE [w EXCEPT !.pc = "set_user",
                               !.referrer_exists = FALSE,
                               !.user_data = WithReferredBy(w.user_data, None)])
    /\ UNCHANGED <<env, bot, db, bucket, handlers, users, nreq,
                   setCount, overlap>>

\* referrer_ref.update({...}) (lines 132-148)
referrer_ref_update(p) ==
    /\ h[p].pc = "update_referrer"
    /\ \E ok \in BOOLEAN :
         LET w == h[p]
         IN  IF ~ok
             THEN /\ Proceed(p, Fail(w, "referrer_ref.update"))
                  /\ users' = users
             ELSE /\ users' = StoreUpdate(w.referrer_id,
                                 ReferrerFields(w.referrer_data, w.user_id,
                                                w.is_premium))
                  /\ Proceed(p, [w EXCEPT !.pc = "set_user",
                                           !.writes = Append(@, "update")])
    /\ UNCHANGED <<env, bot, db, bucket, handlers, nreq, setCount, overlap>>

\* user_ref.set(user_data) (line 152), then the reply
user_ref_set(p) ==
    /\ h[p].pc = "set_user"
    /\ \E ok \in BOOLEAN :
         LET w == h[p]
         IN  IF ~ok
             THEN /\ Proceed(p, Fail(w, "user_ref.set"))
                  /\ UNCHANGED <<users, setCount>>
             ELSE /\ users' = StoreSet(w.user_id, w.user_data)
                  /\ setCount' = [setCount EXCEPT ![w.user_id] = @ + 1]
                  /\ Proceed(p, Welcome([w EXCEPT !.writes = Append(@, "set")]))
    /\ UNCHANGED <<env, bot, db, bucket, handlers, nreq, overlap>>

(* --------------------------- specifications --------------------------- *)

Next ==
    \/ home
    \/ health
    \/ \E p \in Procs : webhook(p)
    \/ \E p \in Procs : referrer_ref_get(p)
    \/ \E p \in Procs : referrer_ref_update(p)
    \/ \E p \in Procs : user_ref_set(p)

Spec == Init /\ [][Next]_vars

\* a webhook request is accepted only while no other is being served
webhook_seq(p) ==
    /\ \A q \in Procs : ~InFlight(q)
    /\ webhook(p)

NextSeq ==
    \/ home
    \/ health
    \/ \E p \in Procs : webhook_seq(p)
    \/ \E p \in Procs : referrer_ref_get(p)
    \/ \E p \in Procs : referrer_ref_update(p)
    \/ \E p \in Procs : user_ref_set(p)

\* the same program with its webhook requests served one after the other
SpecSeq == Init /\ [][NextSeq]_vars

(* ------------------------------- claims ------------------------------- *)

WebhookAnswered == last.endpoint = "/api/webhook"

\* the store calls of handle_start that may raise
StoreCalls ==
    {"user_ref.get", "referrer_ref.get", "referrer_ref.update", "user_ref.set"}

\* worker p takes its first step into provisioning
EntersProvisioning(p) == ~InFlight(p) /\ h'[p].pc # "idle"

\* worker p's user_ref.set succeeds (and the handler ends with the welcome)
SetSucceeds(p) ==
    /\ h[p].pc = "set_user"
    /\ h'[p].pc = "idle"
    /\ last'.reply = "welcome"

\* worker p's referrer_ref.update succeeds
UpdateSucceeds(p) == h[p].pc = "update_referrer" /\ h'[p].pc = "set_user"

\* the referredBy of a stored document: absent, or present with a value
RefBy(doc) ==
    IF "referredBy" \in DOMAIN doc THEN <<"present", doc.referredBy>>
    ELSE <<"absent">>

\* the start texts that carry a ref_<id> code, and the id each carries
RefTexts == {<<StartCmd, RefPrefix \o Str(r)>> : r \in RefTargets}

CodeOf(text) == CHOOSE r \in RefTargets : text = <<StartCmd, RefPrefix \o Str(r)>>

RECURSIVE SumAdded(_)
SumAdded(referrals) ==
    IF DOMAIN referrals = {} THEN 0
    ELSE LET x == CHOOSE y \in DOMAIN referrals : TRUE
         IN  referrals[x].addedValue
               + SumAdded([y \in DOMAIN referrals \ {x} |-> referrals[y]])

\* the balance a document had before any referral credit
BaseBalance(id) == IF id = Str(1) THEN InitBalance ELSE 0

\* C1 (requests served one after the other): a record is created at most once
\* per id and every id with a record beyond the initial one was set exactly
\* once; a run enters provisioning (the only place that writes) only for a
\* user without a record, so a run for a user that has one ends in its first
\* step, and that step writes nothing to the store.
C1_ProvisioningIdempotent ==
    /\ [](\A u \in DocIds :
            /\ setCount[u] <= 1
            /\ (u \in DOMAIN users /\ u # Str(1)) => setCount[u] = 1)
    /\ [][/\ \A p \in Procs :
               EntersProvisioning(p) => h'[p].user_id \notin DOMAIN users
          /\ nreq' # nreq => users' = users]_vars

\* user 2 was provisioned by the first request, and the second request, a
\* start of a user with a record, was welcomed without a store write
C1_Witness ==
    /\ nreq = 2
    /\ \A p \in Procs : ~InFlight(p)
    /\ setCount[Str(2)] = 1
    /\ Str(3) \notin DOMAIN users
    /\ WebhookAnswered /\ last.reply = "welcome" /\ last.writes = <<>>

\* C2 (requests served one after the other): when the handler of a new user U
\* with a code ref_R of an existing R completes, R's balance is its balance
\* before plus the bonus, R's referrals are the previous ones plus exactly one
\* new entry keyed by U with that bonus, and U's record has referredBy = R.
C2_ReferralCredit ==
    [][\A p \in Procs :
         (SetSucceeds(p) /\ h[p].referrer_exists) =>
           LET u     == h[p].user_id
               r     == h[p].referrer_id
               pre   == h[p].referrer_data
               bonus == IF h[p].is_premium THEN 500 ELSE 100
               post  == users'[r]
           IN  /\ post.balance = pre.balance + bonus
               /\ u \notin DOMAIN pre.referrals
               /\ DOMAIN post.referrals = DOMAIN pre.referrals \cup {u}
               /\ post.referrals[u].addedValue = bonus
               /\ \A x \in DOMAIN pre.referrals :
                     post.referrals[x] = pre.referrals[x]
               /\ RefBy(users'[u]) = <<"present", r>>]_vars

\* C3: user_ref.set succeeds at most once per document id.
C3_SetAtMostOnce == \A u \in DocIds : setCount[u] <= 1

\* C3 as amended: user_ref.set succeeds at most once per document id unless
\* two handle_start runs for that id were in flight together.
C3_SetAtMostOnceUnlessOverlap ==
    \A u \in DocIds : ~overlap[u] => setCount[u] <= 1

\* two starts of user 2 were served without overlapping and the record was
\* set once
C3_Witness ==
    /\ nreq = 2
    /\ \A p \in Procs : ~InFlight(p)
    /\ ~overlap[Str(2)]
    /\ setCount[Str(2)] = 1
    /\ setCount[Str(3)] = 0
    /\ WebhookAnswered /\ last.reply = "welcome" /\ last.writes = <<>>

\* C4: every successful referrer_ref.update keeps the stored referrals
\* entries, adds exactly one key that was not present, and raises the stored
\* balance by that entry's addedValue.
C4_UpdateAddsOneEntry ==
    [][\A p \in Procs :
         UpdateSucceeds(p) =>
           LET u    == h[p].user_id
               old  == users[h[p].referrer_id]
               new  == users'[h[p].referrer_id]
           IN  /\ \A x \in DOMAIN old.referrals :
                     /\ x \in DOMAIN new.referrals
                     /\ new.referrals[x] = old.referrals[x]
               /\ DOMAIN new.referrals \ DOMAIN old.referrals = {u}
               /\ new.balance = old.balance + new.referrals[u].addedValue]_vars

\* C4 as amended: every successful referrer_ref.update writes the referrals
\* the handler read at referrer_ref.get with the entry of U added or replaced
\* (addedValue = the bonus) and the balance the handler read plus that bonus,
\* and leaves the other fields of the stored record alone; when the stored
\* balance and referrals still are what the handler read and U is not among
\* them, the stored entries stay, U is the one key added and the balance
\* rises by U's addedValue.
C4_UpdateWritesSnapshotPlusEntry ==
    [][\A p \in Procs :
         UpdateSucceeds(p) =>
           LET u     == h[p].user_id
               snap  == h[p].referrer_data
               bonus == IF h[p].is_premium THEN 500 ELSE 100
               old   == users[h[p].referrer_id]
               new   == users'[h[p].referrer_id]
           IN  /\ DOMAIN new.referrals = DOMAIN snap.referrals \cup {u}
               /\ new.referrals[u].addedValue = bonus
               /\ \A x \in DOMAIN snap.referrals \ {u} :
                     new.referrals[x] = snap.referrals[x]
               /\ new.balance = snap.balance + bonus
               /\ new.userImage = old.userImage
               /\ RefBy(new) = RefBy(old)
               /\ (/\ old.balance = snap.balance
                   /\ old.referrals = snap.referrals
                   /\ u \notin DOMAIN snap.referrals)
                  => /\ \A x \in DOMAIN old.referrals :
                           /\ x \in DOMAIN new.referrals
                           /\ new.referrals[x] = old.referrals[x]
                     /\ DOMAIN new.referrals \ DOMAIN old.referrals = {u}
                     /\ new.balance = old.balance + new.referrals[u].addedValue]_vars

\* a worker has credited the referrer and the entry it wrote is gone again:
\* an overlapping credit overwrote it
C4_Witness ==
    \E p \in Procs :
        /\ h[p].pc = "set_user"
        /\ h[p].writes = <<"update">>
        /\ h[p].user_id \notin DOMAIN users[h[p].referrer_id].referrals
        /\ users[h[p].referrer_id].referrals # EmptyMap

\* the referredBy that user_ref.set stores, by the three cases of the start text
StoredReferredBy(p) ==
    LET w   == h[p]
        doc == users'[w.user_id]
    IN  IF w.text \notin RefTexts THEN RefBy(doc) = <<"absent">>
        ELSE IF ~w.referrer_exists THEN RefBy(doc) = <<"present", None>>
        ELSE RefBy(doc) = <<"present", Str(CodeOf(w.text))>>

\* the document with this id is neither created nor modified by the step
Untouched(id) ==
    /\ id \in DOMAIN users' <=> id \in DOMAIN users
    /\ id \in DOMAIN users => users'[id] = users[id]

\* C5: the record user_ref.set stores has no referredBy without a code, the
\* null marker with a code whose id had no record, and the id with a code whose
\* id had one; in the second case no step of the handler creates or modifies a
\* record for that id.
C5_ReferredByCases ==
    [][\A p \in Procs :
         /\ SetSucceeds(p) => StoredReferredBy(p)
         /\ (/\ h'[p] # h[p]
             /\ h[p].pc = "set_user"
             /\ h[p].text \in RefTexts
             /\ ~h[p].referrer_exists)
            => Untouched(Str(CodeOf(h[p].text)))]_vars

\* C5 as amended: the same three cases; in the second case no step of the
\* handler creates or modifies a record for that id, unless the id is the new
\* user's own, in which case the record created is the user's own, with the
\* null marker.
C5_ReferredByCasesButSelf ==
    [][\A p \in Procs :
         /\ SetSucceeds(p) => StoredReferredBy(p)
         /\ (/\ h'[p] # h[p]
             /\ h[p].pc = "set_user"
             /\ h[p].text \in RefTexts
             /\ ~h[p].referrer_exists
             /\ Str(CodeOf(h[p].text)) # h[p].user_id)
            => Untouched(Str(CodeOf(h[p].text)))]_vars

\* the one request served was a start of user 2 with the code ref_2: the
\* record of 2 was created, with the null marker
C5_Witness ==
    /\ nreq = 1
    /\ Str(2) \in DOMAIN users
    /\ RefBy(users[Str(2)]) = <<"present", None>>

\* C6: no step changes the stored referredBy of a record (its value, or its
\* absence).
C6_ReferredByImmutable ==
    [][\A u \in DOMAIN users : RefBy(users'[u]) = RefBy(users[u])]_vars

\* C6 as amended: no step changes the stored referredBy of a record, unless
\* two handle_start runs for that user were in flight together.
C6_ReferredByImmutableUnlessOverlap ==
    [][\A u \in DOMAIN users :
         ~overlap[u] => RefBy(users'[u]) = RefBy(users[u])]_vars

\* user 2 was provisioned with referredBy = 1, a later start of user 2 was
\* served, and the record still carries it
C6_Witness ==
    /\ nreq = 2
    /\ \A p \in Procs : ~InFlight(p)
    /\ ~overlap[Str(2)]
    /\ Str(2) \in DOMAIN users
    /\ RefBy(users[Str(2)]) = <<"present", Str(1)>>
    /\ Str(3) \notin DOMAIN users
    /\ WebhookAnswered /\ last.reply = "welcome" /\ last.writes = <<>>

\* C7: a mirror that fails or yields nothing leaves user_image None and the
\* handler running: the error reply is only ever sent for a store call that
\* raised; the handler reaches user_ref.set with a valid referral credited,
\* and the record it then writes has userImage None and is answered with the
\* welcome.
C7_MirrorBestEffort ==
    /\ [](/\ last.reply = "error" => last.failed_at \in StoreCalls
          /\ \A p \in Procs :
               /\ (InFlight(p) /\ h[p].mirror # "ok") =>
                     /\ h[p].user_image = None
                     /\ h[p].user_data.userImage = None
               /\ (h[p].pc = "set_user" /\ h[p].referrer_exists) =>
                     h[p].writes = <<"update">>)
    /\ [][\A p \in Procs :
            (SetSucceeds(p) /\ h[p].mirror # "ok") =>
               /\ users'[h[p].user_id].userImage = None
               /\ last'.reply = "welcome"
               /\ last'.failed_at = "none"]_vars

\* the one request served provisioned user 2 without a photo, credited the
\* referrer and was welcomed
C7_Witness ==
    /\ nreq = 1
    /\ Str(2) \in DOMAIN users
    /\ users[Str(2)].userImage = None
    /\ WebhookAnswered /\ last.reply = "welcome"
    /\ last.writes = <<"update", "set">>
    /\ users[Str(1)].balance > InitBalance

\* C8: a dispatched webhook request is answered 200 whatever the handler did
\* (a store failure is answered 200 too, with the error reply sent); a request
\* that is not dispatched is answered 400 or 500 in the step that receives it
\* (no worker goes on with it), sends no reply and writes nothing to the store.
C8_WebhookAck ==
    /\ [](WebhookAnswered =>
            /\ last.dispatched => last.code = 200
            /\ last.failed_at # "none" =>
                  last.dispatched /\ last.code = 200 /\ last.reply = "error"
            /\ ~last.dispatched =>
                  /\ last.code \in {400, 500}
                  /\ last.reply = "none"
                  /\ last.writes = <<>>)
    /\ [][(nreq' # nreq /\ h' = h /\ ~last'.dispatched) =>
             /\ users' = users
             /\ last'.code \in {400, 500}
             /\ last'.reply = "none"]_vars

\* user_ref.set raised after the referrer was credited; the user got the
\* error reply and the gateway got 200
C8_Witness ==
    /\ WebhookAnswered
    /\ last.failed_at = "user_ref.set"
    /\ last.writes = <<"update">>
    /\ last.reply = "error"
    /\ last.code = 200

\* C9: /health answers 'healthy', and / answers 'Bot is running', only when
\* both the bot client and the database client are initialised.
C9_StatusReflectsInit ==
    (last.status \in {"healthy", "Bot is running"}) =>
        (bot # Unset /\ db # Unset)

\* C10 (requests served one after the other): the balance of every record is
\* its balance before any credit plus one bonus (the addedValue) per entry of
\* its referrals, so no referred user is credited for twice.
C10_CreditedOncePerUser ==
    \A r \in DOMAIN users :
        users[r].balance = BaseBalance(r) + SumAdded(users[r].referrals)

=============================================================================
